---- MODULE Spec2Model ----
(***************************************************************************)
(* MetaBridge: the media-item pipeline of lib/MediaProcessor.py driven by  *)
(* the seven category extractors of MetaBridge.py, over a model of the     *)
(* destination file system.                                                *)
(*                                                                         *)
(* Paths are sequences of components, a file name is a record              *)
(* [stamp, suffix, ext] standing for "<stamp><_suffix><ext>", a Python     *)
(* value that may be None is a sequence of length <= 1.                    *)
(***************************************************************************)
EXTENDS Integers, Sequences, FiniteSets, TLC

VARIABLES
    is_dry_run,       \* MediaProcessor.is_dry_run
    metadata,         \* MediaProcessor.metadata: <<>> for {} or <<record>>
    processed_items,  \* MediaProcessor.processed_items
    dirs,             \* directories that exist in the destination tree
    files,            \* files of the destination tree: <<dir, name>> -> content
    sticker_dir,      \* the sticker directory: <<>> when missing, else <<set of files>>
    pc,               \* where main() is: a category, "report", "done" or "aborted"
    phase,            \* where the current category function is
    starting_count,   \* the running category's starting_count
    album_name,       \* extract_albums: album_name of the manifest being walked
    json_data,        \* JSONFileManager.json_data: "none", "empty" ({}) or "document"
    listing,          \* process_stickers: files of os.listdir not yet visited
    report_log,       \* the "Processed <n> ..." lines logged so far, in order
    total,            \* the "Done! Processed <n> files." line: <<>> or <<n>>
    raised,           \* whether the last process_media_item call raised
    calls,            \* history: number of process_media_item calls made
    last_call,        \* history: arguments and I/O outcomes of the last call
    writes,           \* history: every file creation, in order
    files0            \* history: the files present before the run

vars == <<is_dry_run, metadata, processed_items, dirs, files, sticker_dir, pc,
          phase, starting_count, album_name, json_data, listing, report_log, total,
          raised, calls, last_call, writes, files0>>

(***************************************************************************)
(* Bounds of the model.                                                    *)
(***************************************************************************)
MaxCalls == 2   \* process_media_item calls of one behaviour of ItemSpec
MaxItems == 1   \* items the JSON manifests of one run list, all categories together

(***************************************************************************)
(* Python values.                                                          *)
(***************************************************************************)
None == <<>>
Some(v) == <<v>>

\* Python truthiness of an int-or-None value: None and 0 are falsy.
Truthy(v) == v # None /\ v # Some(0)

(***************************************************************************)
(* Time.  pytz "America/Los_Angeles" around the instants of the model:     *)
(* PDT (UTC-7) between the 2023 transitions, PST (UTC-8) outside them.     *)
(***************************************************************************)
DstStart2023 == 1678615200   \* 2023-03-12 10:00:00 UTC
DstEnd2023   == 1699174800   \* 2023-11-05 09:00:00 UTC
PstOffset    == 0 - 28800
PdtOffset    == 0 - 25200

la_timezone(ts) ==
    IF DstStart2023 <= ts /\ ts < DstEnd2023 THEN PdtOffset ELSE PstOffset

\* time.time() of the run, truncated.
Now == 1700000000

\* The instants a record or a file's ctime may carry.  T1 and T2 are one
\* hour apart across the end of daylight saving: both read 2023-11-05
\* 01:00:00 on a Los Angeles clock.
T1 == DstEnd2023 - 3600
T2 == DstEnd2023
\* A day before the epoch: an integer that json.load accepts like any other.
TPre == 0 - 86400
Instants == {TPre, 0, T1, T2}

\* datetime.fromtimestamp(ts, tz).strftime("%Y-%m-%d_%H.%M.%S"): the local
\* wall-clock reading, kept as its count of seconds (one string per count).
\* None is not a number: fromtimestamp raises TypeError.
CanFormat(ts) == ts # None
strftime(ts) == ts[1] + la_timezone(ts[1])

(***************************************************************************)
(* Paths.                                                                  *)
(***************************************************************************)
\* os.path.join(a, b) on component sequences: an absolute b discards a.
Join(a, b) == IF b # <<>> /\ b[1] = "/" THEN b ELSE a \o b

\* The directory a path names once the kernel has resolved its ".." parts.
RECURSIVE NormAcc(_, _)
NormAcc(p, acc) ==
    IF p = <<>> THEN acc
    ELSE IF Head(p) = ".."
         THEN NormAcc(Tail(p), IF acc = <<>> THEN acc
                               ELSE SubSeq(acc, 1, Len(acc) - 1))
         ELSE NormAcc(Tail(p), Append(acc, Head(p)))
Norm(p) == NormAcc(p, <<>>)

\* The directories a lookup of p walks through, each of which must exist.
Walk(p) == {Norm(SubSeq(p, 1, k)) : k \in 1..Len(p)}

\* os.path.exists(os.path.join(directory, name)) in file system fs.
path_exists(fs, directory, name) ==
    /\ Walk(directory) \subseteq fs.dirs
    /\ <<Norm(directory), name>> \in DOMAIN fs.files

\* os.makedirs(directory, exist_ok=True).
makedirs(fs, directory) == [fs EXCEPT !.dirs = @ \cup Walk(directory)]

(***************************************************************************)
(* Command line: args.path, args.save_path.                                *)
(***************************************************************************)
base_path == <<"export">>
save_path == <<"out">>

(***************************************************************************)
(* Raw media records.  A URI is [dir, stem, ext]: its directory components *)
(* and the file name split as os.path.splitext splits it.                  *)
(***************************************************************************)
Marker == "your_facebook_activity"
EmptyUri == [dir |-> <<>>, stem |-> "", ext |-> ""]

startswith_anything(uri) == TRUE

\* uri.startswith("your_facebook_activity")
startswith_marker(uri) == uri.dir # <<>> /\ uri.dir[1] = Marker

\* str.lower() on the extensions of the model.
lower(ext) == CASE ext = ".PNG" -> ".png" [] ext = ".JPG" -> ".jpg" [] OTHER -> ext

ImageExtensions == {".jpg", ".jpeg", ".png", ".gif", ".bmp", ".tiff", ".webp"}

is_image(uri_path) == lower(uri_path.ext) \in ImageExtensions

\* _extract_taken_timestamp: the value of the first exif_data entry that has
\* a taken_timestamp key (an entry is <<>> without the key, <<value>> with it).
RECURSIVE extract_taken_timestamp(_)
extract_taken_timestamp(exif_data_list) ==
    IF exif_data_list = <<>> THEN None
    ELSE IF Head(exif_data_list) # <<>> THEN Head(exif_data_list)[1]
    ELSE extract_taken_timestamp(Tail(exif_data_list))

\* data.get('creation_timestamp', int(time.time()))
creation_of(data) ==
    IF data.creation_timestamp = <<>> THEN Some(Now) ELSE data.creation_timestamp[1]

\* taken_timestamp or creation_timestamp
resolve_timestamp(taken, creation) == IF Truthy(taken) THEN taken ELSE creation

\* The metadata record process_media_item builds (lines 47-55).
build_metadata(data, uri, save_directory) ==
    LET taken == extract_taken_timestamp(data.exif_data)
        creation == creation_of(data)
    IN [ uri_path           |-> [uri EXCEPT !.dir = Join(base_path, uri.dir)],
         description        |-> data.description,
         creation_timestamp |-> creation,
         taken_timestamp    |-> taken,
         save_directory     |-> save_directory,
         timestamp          |-> resolve_timestamp(taken, creation) ]

(***************************************************************************)
(* The processor.  st is the mutable state a call works on:                *)
(* [metadata, processed_items, fs: [dirs, files], writes, raised], and as  *)
(* history image_io / copy_io: the I/O outcome each branch met, "-" when   *)
(* the branch did no I/O.                                                  *)
(***************************************************************************)
Key(m) == <<m.uri_path, m.save_directory>>

already_processed_never(st) == FALSE

\* (uri_path, save_directory) in self.processed_items
already_processed(st) == Key(st.metadata[1]) \in st.processed_items

\* _generate_filename
generate_filename(m) ==
    [stamp |-> strftime(m.timestamp), suffix |-> <<>>, ext |-> m.uri_path.ext]

\* _generate_save_path: the loop, then the name it ends on.
RECURSIVE save_path_loop(_, _, _, _, _)
save_path_loop(fs, directory, base, file_name, counter) ==
    IF path_exists(fs, directory, file_name)
    THEN save_path_loop(fs, directory, base,
                        [base EXCEPT !.suffix = <<counter>>], counter + 1)
    ELSE file_name

generate_save_path_unchecked(fs, directory, base_file_name) == base_file_name

generate_save_path(fs, directory, base_file_name) ==
    save_path_loop(fs, directory, base_file_name, base_file_name, 1)

\* A file comes to exist (or is replaced) at directory/name.
put_file(fs, directory, name, content) ==
    [fs EXCEPT !.files = (<<Norm(directory), name>> :> content) @@ @]

\* History: one entry per file creation.
Logged(st, name, branch, done) ==
    LET m == st.metadata[1]
    IN Append(st.writes,
              [ src    |-> m.uri_path,
                dir    |-> m.save_directory,
                at     |-> Norm(m.save_directory),
                name   |-> name,
                branch |-> branch,
                cat    |-> pc,
                fresh  |-> <<Norm(m.save_directory), name>> \notin DOMAIN st.fs.files,
                done   |-> done ])

\* A writer that does not record the pair.
add_processed_forgot(st) == st.processed_items
\* self.processed_items.add((uri_path, save_directory))
add_processed(st) == st.processed_items \cup {Key(st.metadata[1])}

\* How ExifImageHandler ends: "load_fail" is any failure before the image is
\* written (Image.open, piexif load or dump), "utime_fail" one after it.
ImageOutcomes == {"ok", "load_fail", "utime_fail"}
\* How shutil.copy and os.utime end in _copy_non_image.
CopyOutcomes == {"ok", "copy_fail", "utime_fail"}

\* The try block of _copy_non_image and its except clause; outcome is how
\* shutil.copy and os.utime end.
copy_non_image_try(st, outcome) ==
    LET m == st.metadata[1] IN
    IF ~CanFormat(m.timestamp) THEN st     \* raised, caught at line 123
    ELSE
      LET name == generate_save_path(st.fs, m.save_directory, generate_filename(m))
          made == makedirs(st.fs, m.save_directory)
          copied(mtime) == put_file(made, m.save_directory, name,
                                    [src |-> m.uri_path, exif |-> FALSE, mtime |-> mtime])
      IN CASE outcome = "copy_fail" ->
                [st EXCEPT !.fs = made, !.copy_io = outcome]
           [] outcome = "utime_fail" ->
                [st EXCEPT !.fs = copied(None), !.copy_io = outcome,
                           !.writes = Logged(st, name, "copy", FALSE)]
           [] OTHER ->
                [st EXCEPT !.fs = copied(m.timestamp), !.copy_io = outcome,
                           !.writes = Logged(st, name, "copy", TRUE),
                           !.processed_items = add_processed(st)]

copy_non_image_always(st, outcome) == copy_non_image_try(st, outcome)

\* _copy_non_image: in a dry run it logs and returns.
copy_non_image(st, outcome) ==
    IF is_dry_run THEN st ELSE copy_non_image_try(st, outcome)

\* The except clause of _copy_image (lines 93-96).  Line 95 reads save_path,
\* which is unbound when _generate_filename raised: UnboundLocalError leaves
\* the handler and _copy_non_image is not reached.
image_handler(st, save_path_bound, copy_outcome) ==
    IF save_path_bound THEN copy_non_image(st, copy_outcome)
    ELSE [st EXCEPT !.raised = TRUE]

\* _copy_image; io.image is how ExifImageHandler ends, io.copy how the
\* fallback copy ends.
copy_image(st, io) ==
    LET m == st.metadata[1] IN
    IF is_dry_run THEN st
    ELSE IF ~CanFormat(m.timestamp) THEN image_handler(st, FALSE, io.copy)
    ELSE
      LET name == generate_save_path(st.fs, m.save_directory, generate_filename(m))
          made == makedirs(st.fs, m.save_directory)
          saved(mtime) == put_file(made, m.save_directory, name,
                                   [src |-> m.uri_path, exif |-> TRUE, mtime |-> mtime])
      IN CASE io.image = "load_fail" ->
                image_handler([st EXCEPT !.image_io = io.image], TRUE, io.copy)
           [] io.image = "utime_fail" ->
                image_handler([st EXCEPT !.fs = saved(None), !.image_io = io.image,
                                         !.writes = Logged(st, name, "image", FALSE)],
                              TRUE, io.copy)
           [] OTHER ->
                [st EXCEPT !.fs = saved(m.timestamp), !.image_io = io.image,
                           !.writes = Logged(st, name, "image", TRUE),
                           !.processed_items = add_processed(st)]

\* process_media_item
process_media_item(st, data, save_directory, io) ==
    LET uri == IF data.uri = <<>> THEN EmptyUri ELSE data.uri[1] IN
    IF ~startswith_marker(uri) THEN st
    ELSE
      LET st1 == [st EXCEPT !.metadata = <<build_metadata(data, uri, save_directory)>>]
      IN IF already_processed(st1) THEN st1
         ELSE IF is_image(st1.metadata[1].uri_path) THEN copy_image(st1, io)
         ELSE copy_non_image(st1, io.copy)

(***************************************************************************)
(* Inputs of the model.                                                    *)
(***************************************************************************)
Uri(dir, stem, ext) == [dir |-> dir, stem |-> stem, ext |-> ext]
MediaDir == <<Marker, "posts", "media">>

\* Raw records as a manifest may list them.  "uri" is <<>> when the key is
\* missing; "creation_timestamp" is <<>> when missing, <<None>> when null;
\* exif_data is media_metadata.photo_metadata.exif_data, <<>> when missing.
Record(uri, creation, exif) ==
    [uri |-> uri, description |-> "", creation_timestamp |-> creation, exif_data |-> exif]

Records ==
    { \* a photo with a creation time only
      Record(<<Uri(MediaDir, "a", ".jpg")>>, <<Some(T2)>>, <<>>),
      \* another photo, taken an hour earlier on the same wall-clock reading;
      \* its second EXIF entry is the first to hold a taken_timestamp
      Record(<<Uri(MediaDir, "b", ".jpg")>>, <<>>, << <<>>, <<Some(T1)>>, <<Some(T2)>> >>),
      \* a video whose EXIF block says it was taken at the epoch
      Record(<<Uri(MediaDir, "v", ".mp4")>>, <<Some(T2)>>, << <<Some(0)>> >>),
      \* the first photo again, listed with a null creation time
      Record(<<Uri(MediaDir, "a", ".jpg")>>, <<None>>, <<>>),
      \* the video again, listed with a creation time before 1970
      Record(<<Uri(MediaDir, "v", ".mp4")>>, <<Some(TPre)>>, <<>>),
      \* a remote URI, and a record without "uri"
      Record(<<Uri(<<"https:", "cdn">>, "c", ".jpg")>>, <<Some(T2)>>, <<>>),
      Record(<<>>, <<Some(T2)>>, <<>>) }

IO == [image : ImageOutcomes, copy : CopyOutcomes]

\* data.get('name', '') of an album manifest, as path components.
AlbumNames == { <<"Trip">>, <<"..", "posts">> }

\* What the sticker directory may hold: <<>> when it does not exist.
uri_base == <<Marker, "posts", "media", "stickers_used">>
StickerEntries ==
    { [stem |-> "s", ext |-> ".PNG", isfile |-> TRUE],
      [stem |-> "t", ext |-> ".mp4", isfile |-> TRUE],
      [stem |-> "old", ext |-> "", isfile |-> FALSE] }
StickerDirs == { <<>> } \cup { <<S>> : S \in {{}} \cup {{e} : e \in StickerEntries} }
StickerTimes == {T2}

\* Files an earlier run may have left in the destination tree.
T1Name == [stamp |-> strftime(Some(T1)), suffix |-> <<>>, ext |-> ".jpg"]
OldContent == [src |-> Uri(<<"older">>, "x", ".jpg"), exif |-> TRUE, mtime |-> Some(T1)]
OldFiles ==
    { <<>>,
      (<< <<"out", "posts">>, T1Name >> :> OldContent),
      (<< <<"out", "posts">>, [T1Name EXCEPT !.suffix = <<1>>] >> :> OldContent) }

\* The destination directories of the calls of ItemSpec.
ItemDirs == { <<"out", "posts">>, <<"out", "albums", "..", "posts">> }

(***************************************************************************)
(* The run: main() and the seven category functions.                       *)
(***************************************************************************)
Order == <<"posts", "albums", "misc", "videos", "stories", "reels", "stickers">>
ManifestCats == {"posts", "albums", "misc", "videos", "stories", "reels"}

IndexOf(c) == CHOOSE i \in 1..Len(Order) : Order[i] = c
After(c) == IF IndexOf(c) = Len(Order) THEN "report" ELSE Order[IndexOf(c) + 1]

\* os.path.join(args.save_path, <category directory>)
category_root(c) ==
    Join(save_path, CASE c = "misc" -> <<"uncategorized_photos">> [] OTHER -> <<c>>)

\* The save_directory a category hands to process_media_item.
save_directory_of(c, name) ==
    IF c = "albums" THEN Join(category_root(c), name) ELSE category_root(c)

\* media_processor.get_total_processed()
get_total_processed == Cardinality(processed_items)

NoCall == <<>>

\* The state after MediaProcessor(args.path, args.save_path, args.dry_run),
\* over a destination tree holding one of the file sets of olds.
InitOver(olds) ==
    /\ is_dry_run \in BOOLEAN
    /\ metadata = <<>>
    /\ processed_items = {}
    /\ files \in olds
    /\ dirs = UNION { Walk(k[1]) : k \in DOMAIN files }
    /\ files0 = files
    /\ sticker_dir = <<>>
    /\ pc = Order[1]
    /\ phase = "enter"
    /\ starting_count = 0
    /\ album_name = <<>>
    /\ json_data = "none"
    /\ listing = {}
    /\ report_log = <<>>
    /\ total = <<>>
    /\ raised = FALSE
    /\ calls = 0
    /\ last_call = NoCall
    /\ writes = <<>>

\* A run into a destination tree that holds nothing yet.
Init == InitOver({<<>>})

\* One call of media_processor.process_media_item(data, save_directory):
\* the processor's state, the file system and the history after it.
Call(data, save_directory, io) ==
    LET st0 == [ metadata |-> metadata, processed_items |-> processed_items,
                 fs |-> [dirs |-> dirs, files |-> files], writes |-> writes,
                 raised |-> FALSE, image_io |-> "-", copy_io |-> "-" ]
    IN \E st \in {process_media_item(st0, data, save_directory, io)} :
         /\ metadata' = st.metadata
         /\ processed_items' = st.processed_items
         /\ dirs' = st.fs.dirs
         /\ files' = st.fs.files
         /\ writes' = st.writes
         /\ raised' = st.raised
         /\ calls' = calls + 1
         /\ last_call' = << [ data |-> data, save_directory |-> save_directory,
                              image_io |-> st.image_io, copy_io |-> st.copy_io ] >>

\* extract_*: starting_count = media_processor.get_total_processed()
EnterCategory ==
    /\ pc \in ManifestCats /\ phase = "enter"
    /\ starting_count' = get_total_processed
    /\ phase' = "files"
    /\ UNCHANGED <<is_dry_run, metadata, processed_items, dirs, files, sticker_dir,
                   pc, album_name, json_data, listing, report_log, total, raised,
                   calls, last_call, writes, files0>>

\* file_manager.load_json_file(json_file): the document, or {} when reading
\* or parsing failed; extract_albums then reads the album's name.
LoadJson ==
    /\ pc \in ManifestCats /\ phase = "files"
    /\ \E ok \in BOOLEAN :
         /\ json_data' = IF ok THEN "document" ELSE "empty"
         /\ IF pc = "albums"
            THEN \E n \in AlbumNames : album_name' = IF ok THEN n ELSE <<>>
            ELSE album_name' = album_name
    /\ phase' = "items"
    /\ UNCHANGED <<is_dry_run, metadata, processed_items, dirs, files, sticker_dir,
                   pc, starting_count, listing, report_log, total, raised,
                   calls, last_call, writes, files0>>

\* One iteration of a category's loop over the items of the loaded document.
\* An exception out of process_media_item leaves the loop, the category
\* function and main().
ProcessItem ==
    /\ pc \in ManifestCats /\ phase = "items" /\ json_data = "document"
    /\ calls < MaxItems
    /\ \E data \in Records, io \in IO :
         Call(data, save_directory_of(pc, album_name), io)
    /\ pc' = IF raised' THEN "aborted" ELSE pc
    /\ UNCHANGED <<is_dry_run, sticker_dir, phase, starting_count, album_name,
                   json_data, listing, report_log, total, files0>>

\* The items of the document are exhausted: on to the next file.
EndFile ==
    /\ pc \in ManifestCats /\ phase = "items"
    /\ phase' = "files"
    /\ UNCHANGED <<is_dry_run, metadata, processed_items, dirs, files, sticker_dir,
                   pc, starting_count, album_name, json_data, listing, report_log,
                   total, raised, calls, last_call, writes, files0>>

processed_count_total == get_total_processed

\* processed_count = get_total_processed() - starting_count, logged.
processed_count == get_total_processed - starting_count

\* The category function returns: its locals are gone.
ExitCategory ==
    /\ pc \in ManifestCats /\ phase = "files"
    /\ report_log' = Append(report_log, [cat |-> pc, count |-> processed_count])
    /\ pc' = After(pc)
    /\ phase' = "enter"
    /\ starting_count' = 0
    /\ album_name' = <<>>
    /\ json_data' = "none"
    /\ UNCHANGED <<is_dry_run, metadata, processed_items, dirs, files, sticker_dir,
                   listing, total, raised, calls, last_call, writes, files0>>

\* process_stickers up to the loop: without the directory it returns 0
\* after a warning, logging no count.
StickersEnter ==
    /\ pc = "stickers" /\ phase = "enter"
    /\ starting_count' = get_total_processed
    /\ \E d \in StickerDirs :
         /\ sticker_dir' = d
         /\ IF d = <<>>
            THEN /\ pc' = After(pc)
                 /\ UNCHANGED <<phase, listing>>
            ELSE /\ listing' = d[1]
                 /\ phase' = "items"
                 /\ pc' = pc
    /\ UNCHANGED <<is_dry_run, metadata, processed_items, dirs, files, album_name,
                   json_data, report_log, total, raised, calls, last_call, writes,
                   files0>>

\* The record process_stickers synthesizes for a file of the directory.
sticker_record(entry, ctime) ==
    [ uri |-> <<Uri(uri_base, entry.stem, entry.ext)>>, description |-> "",
      creation_timestamp |-> <<Some(ctime)>>, exif_data |-> <<>> ]

\* One iteration of the loop over os.listdir; an exception out of
\* process_media_item is caught and logged (lines 195-204).
StickerItem ==
    /\ pc = "stickers" /\ phase = "items"
    /\ \E entry \in listing :
         /\ listing' = listing \ {entry}
         /\ IF entry.isfile
            THEN \E ctime \in StickerTimes, io \in IO :
                   Call(sticker_record(entry, ctime), category_root(pc), io)
            ELSE UNCHANGED <<metadata, processed_items, dirs, files, writes, raised,
                             calls, last_call>>
    /\ UNCHANGED <<is_dry_run, sticker_dir, pc, phase, starting_count, album_name,
                   json_data, report_log, total, files0>>

StickersExit ==
    /\ pc = "stickers" /\ phase = "items" /\ listing = {}
    /\ report_log' = Append(report_log, [cat |-> pc, count |-> processed_count])
    /\ pc' = After(pc)
    /\ phase' = "enter"
    /\ starting_count' = 0
    /\ UNCHANGED <<is_dry_run, metadata, processed_items, dirs, files, sticker_dir,
                   album_name, json_data, listing, total, raised,
                   calls, last_call, writes, files0>>

\* logging.info(f"Done! Processed {get_total_processed()} files.")
FinalReport ==
    /\ pc = "report"
    /\ total' = <<get_total_processed>>
    /\ pc' = "done"
    /\ UNCHANGED <<is_dry_run, metadata, processed_items, dirs, files, sticker_dir,
                   phase, starting_count, album_name, json_data, listing, report_log,
                   raised, calls, last_call, writes, files0>>

Next ==
    \/ EnterCategory
    \/ LoadJson
    \/ ProcessItem
    \/ EndFile
    \/ ExitCategory
    \/ StickersEnter
    \/ StickerItem
    \/ StickersExit
    \/ FinalReport

Spec == Init /\ [][Next]_vars

(***************************************************************************)
(* process_media_item on its own: any sequence of calls, on any record and *)
(* destination directory.                                                  *)
(***************************************************************************)
ItemCall ==
    /\ calls < MaxCalls
    /\ \E data \in Records, d \in ItemDirs, io \in IO : Call(data, d, io)
    /\ UNCHANGED <<is_dry_run, sticker_dir, pc, phase, starting_count, album_name,
                   json_data, listing, report_log, total, files0>>

ItemInit == InitOver(OldFiles)

ItemSpec == ItemInit /\ [][ItemCall]_vars

(***************************************************************************)
(* Properties.                                                             *)
(***************************************************************************)
\* What a call was made on, read off its arguments.
Made == last_call # NoCall
CallUri(c) == IF c.data.uri = <<>> THEN EmptyUri ELSE c.data.uri[1]
CallPath(c) == [CallUri(c) EXCEPT !.dir = base_path \o @]
CallKey(c) == <<CallPath(c), c.save_directory>>
Foreign(c) == CallUri(c).dir = <<>> \/ CallUri(c).dir[1] # "your_facebook_activity"
ImageCall(c) == CallUri(c).ext \in {".jpg", ".JPG", ".png", ".PNG"}
DirsOf(f) == UNION { Walk(k[1]) : k \in DOMAIN f }

\* C1: a call for a (source path, destination directory) pair that is already
\* in the Processed-Set writes nothing and leaves the Processed-Set as it is.
C1_Idempotent ==
    [][ (calls' = calls + 1 /\ CallKey(last_call'[1]) \in processed_items)
        => /\ processed_items' = processed_items
           /\ files' = files /\ dirs' = dirs /\ writes' = writes ]_vars

\* A second call for a pair the first call processed has been made.
C1_Witness ==
    /\ Made /\ calls >= 2 /\ ~is_dry_run
    /\ CallKey(last_call[1]) \in processed_items
    /\ last_call[1].image_io = "-" /\ last_call[1].copy_io = "-"

\* C2: the resolved timestamp of an accepted record is its taken_timestamp
\* (of the first exif_data entry that has one) whenever one is present, and
\* its creation_timestamp otherwise.
C2_TimestampRule ==
    (Made /\ ~Foreign(last_call[1])) =>
        LET exif == last_call[1].data.exif_data
            has == { i \in 1..Len(exif) : exif[i] # <<>> }
            first == CHOOSE i \in has : \A j \in has : i <= j
            m == metadata[1]
        IN IF has # {} THEN m.timestamp = exif[first][1]
           ELSE m.timestamp = m.creation_timestamp

\* Writes that ended with the item in the Processed-Set, of two distinct
\* items whose names collide (same formatted timestamp, same extension)
\* into the same destination directory.
Collide(i, j) ==
    /\ i < j /\ writes[i].done /\ writes[j].done
    /\ writes[i].src # writes[j].src
    /\ writes[i].dir = writes[j].dir
    /\ writes[i].name.stamp = writes[j].name.stamp
    /\ writes[i].name.ext = writes[j].name.ext
PathOf(w) == <<w.at, w.name>>
Suffixed1(n) == [n EXCEPT !.suffix = <<1>>]

\* C3 as stated: two such items get distinct paths and the second one's is
\* the first one's name with _1 before the extension.
C3_CollisionLaw ==
    \A i, j \in DOMAIN writes :
        (Collide(i, j) /\ \A k \in DOMAIN writes : ~(Collide(i, k) /\ k < j)) =>
            /\ PathOf(writes[i]) # PathOf(writes[j])
            /\ writes[i].name.suffix = <<>>
            /\ writes[j].name = Suffixed1(writes[i].name)

\* Whether <name>_1<ext> was free in the directory of writes[j] when
\* writes[j] was made: no earlier run and no earlier write put it there.
Free1(i, j) ==
    LET p == <<writes[j].at, Suffixed1(writes[i].name)>>
    IN /\ p \notin DOMAIN files0
       /\ \A k \in 1..(j - 1) : PathOf(writes[k]) # p

\* C3, amended: the two paths are distinct; the second is the first's name
\* with _1 before the extension when the first got the unsuffixed name and
\* the _1 name was still free.
C3_CollisionLawAmended ==
    \A i, j \in DOMAIN writes :
        Collide(i, j) =>
            /\ PathOf(writes[i]) # PathOf(writes[j])
            /\ (writes[i].name.suffix = <<>> /\ Free1(i, j))
               => writes[j].name = Suffixed1(writes[i].name)

\* Two colliding items were written, the second under the _1 name.
C3_Witness ==
    \E i, j \in DOMAIN writes :
        /\ Collide(i, j)
        /\ writes[i].name.suffix = <<>> /\ writes[j].name.suffix = <<1>>

\* C4: in a dry run no file or directory is created or changed and the
\* Processed-Set stays empty.
C4_DryRun ==
    is_dry_run =>
        /\ files = files0 /\ dirs = DirsOf(files0) /\ writes = <<>>
        /\ processed_items = {}

\* A dry run in which an image and a non-image item went through their
\* branches: the whole run, with a manifest item and a sticker.
C4_Witness ==
    /\ is_dry_run /\ pc = "done" /\ calls >= 2
    /\ metadata # <<>> /\ metadata[1].save_directory = <<"out", "stickers">>

\* C5: a call on a record whose uri does not begin with the export-root
\* marker, or that has no uri, changes neither the Processed-Set nor the
\* destination tree.
C5_ForeignSkip ==
    [][ (calls' = calls + 1 /\ Foreign(last_call'[1]))
        => /\ processed_items' = processed_items
           /\ files' = files /\ dirs' = dirs /\ writes' = writes ]_vars

\* A record with a foreign uri was submitted to a processor that writes.
C5_Witness == Made /\ ~is_dry_run /\ Foreign(last_call[1]) /\ calls >= 1

\* C6: no failure of the image branch escapes process_media_item, and an
\* image item whose fallback copy succeeded is in the Processed-Set.
C6_ImageFallback ==
    (Made /\ ~is_dry_run /\ ~Foreign(last_call[1]) /\ ImageCall(last_call[1])) =>
        /\ ~raised
        /\ last_call[1].copy_io = "ok" => CallKey(last_call[1]) \in processed_items

\* C7: no failure propagates out of process_media_item and the run is never
\* aborted on its way to the final report.
C7_NeverAborts == ~raised /\ pc # "aborted"

\* C8: every file a category writes lands under that category's own
\* destination directory.
IsPrefix(p, q) == Len(p) <= Len(q) /\ SubSeq(q, 1, Len(p)) = p
C8_DisjointDirs ==
    \A i \in DOMAIN writes :
        IsPrefix(save_path \o <<IF writes[i].cat = "misc" THEN "uncategorized_photos"
                                 ELSE writes[i].cat>>,
                 writes[i].at)

RECURSIVE SumCounts(_)
SumCounts(log) == IF log = <<>> THEN 0 ELSE Head(log).count + SumCounts(Tail(log))

\* C9 as stated: the final report follows seven category counts, in the
\* fixed order, each >= 0, that sum to the total, the Processed-Set's size.
C9_Accounting ==
    pc = "done" =>
        /\ Len(report_log) = 7
        /\ \A i \in DOMAIN report_log :
             report_log[i].cat = Order[i] /\ report_log[i].count >= 0
        /\ total = <<SumCounts(report_log)>>
        /\ total = <<Cardinality(processed_items)>>

\* C9, amended: counts are logged in the fixed order, each the growth of the
\* Processed-Set over its category and >= 0; process_stickers logs no count
\* when the sticker directory is missing; at the final report the counts
\* logged sum to the total, the Processed-Set's size.
C9_AccountingAmended ==
    /\ \A i \in DOMAIN report_log :
         report_log[i].cat = Order[i] /\ report_log[i].count >= 0
    /\ (pc \in ManifestCats \cup {"stickers", "report"}) =>
         SumCounts(report_log) =
            IF phase = "enter" THEN Cardinality(processed_items) ELSE starting_count
    /\ pc = "done" =>
         /\ Len(report_log) = IF sticker_dir = <<>> THEN 6 ELSE 7
         /\ total = <<SumCounts(report_log)>>
         /\ total = <<Cardinality(processed_items)>>

\* A run that processed an item and found no sticker directory has ended
\* on six counts.
C9_Witness ==
    /\ pc = "done" /\ sticker_dir = <<>> /\ Len(report_log) = 6
    /\ total # <<0>>

\* C10: every file written for a sticker is a byte copy made by the
\* non-image branch into <save-path>/stickers, with no EXIF change and with
\* its timestamp applied.
C10_Stickers ==
    \A i \in DOMAIN writes :
        writes[i].cat = "stickers" =>
            /\ writes[i].at = <<"out", "stickers">>
            /\ writes[i].branch = "copy"
            /\ ~files[PathOf(writes[i])].exif
            /\ writes[i].done => files[PathOf(writes[i])].mtime # None

\* C11: for every record that process_media_item accepts, the resolved
\* timestamp stored in the metadata record and handed to the writer is an
\* integer Unix epoch value >= 0.
C11_ResolvedTimestamp ==
    (Made /\ ~Foreign(last_call[1])) =>
        /\ metadata # <<>>
        /\ metadata[1].timestamp # None
        /\ metadata[1].timestamp[1] >= 0

\* The completed writes before the i-th that chose among the same names: same
\* directory, same formatted timestamp, same extension.
SameBase(i) ==
    { j \in 1..(i - 1) :
        /\ writes[j].done
        /\ writes[j].at = writes[i].at
        /\ writes[j].name.stamp = writes[i].name.stamp
        /\ writes[j].name.ext = writes[i].name.ext }
InitiallyEmpty(d) == \A k \in DOMAIN files0 : k[1] # d
NthName(n) == IF n = 0 THEN <<>> ELSE <<n>>

\* C12: in a non-dry run every write went to a path that held no file when it
\* was chosen, so every file that was in the tree before the run is still as
\* it was; and the items written under one base name into a directory that
\* started empty got name.ext, name_1.ext, ..., name_(k-1).ext in order.
C12_NoSilentOverwrite ==
    ~is_dry_run =>
        /\ \A i \in DOMAIN writes : writes[i].fresh
        /\ \A p \in DOMAIN files0 : files[p] = files0[p]
        /\ \A i \in DOMAIN writes :
               (writes[i].done /\ InitiallyEmpty(writes[i].at)) =>
                   writes[i].name.suffix = NthName(Cardinality(SameBase(i)))

\* The pairs a completed write is logged for, the completed writes, and the
\* files of the tree that the run created or replaced.
DoneWrites == { i \in DOMAIN writes : writes[i].done }
DonePairs == { <<writes[i].src, writes[i].dir>> : i \in DoneWrites }
Created == { p \in DOMAIN files : p \notin DOMAIN files0 \/ files[p] # files0[p] }
CopyFailed == Made /\ last_call[1].copy_io \in {"copy_fail", "utime_fail"}

\* C13 as stated, at every point of a non-dry run: a pair is in the
\* Processed-Set exactly if a write for it completed, the files the run
\* created are as many as the pairs, and an item whose copy failed is not in
\* the set and left no file.  (That the set never shrinks is an action
\* property, part of C13_ProcessedSetAmended.)
C13_ProcessedSet ==
    ~is_dry_run =>
        /\ processed_items = DonePairs
        /\ Cardinality(Created) = Cardinality(processed_items)
        /\ CopyFailed => CallKey(last_call[1]) \notin processed_items
        /\ \A i \in DOMAIN writes : writes[i].branch = "copy" => writes[i].done

\* C13 amended: a pair is in the Processed-Set exactly if a write for it
\* completed, the completed writes are as many as the pairs, an item whose
\* copy failed is not in the set, and the set never shrinks.
C13_ProcessedSetAmended ==
    /\ [](~is_dry_run =>
            /\ processed_items = DonePairs
            /\ Cardinality(DoneWrites) = Cardinality(processed_items)
            /\ CopyFailed => CallKey(last_call[1]) \notin processed_items)
    /\ [][processed_items \subseteq processed_items']_vars

\* One item is in the Processed-Set, and the copy of another failed after
\* its file was created.
C13_Witness ==
    /\ ~is_dry_run /\ CopyFailed
    /\ Cardinality(processed_items) = 1
    /\ \E i \in DOMAIN writes : writes[i].branch = "copy" /\ ~writes[i].done

====
